---- MODULE Spec2Model ----
(***************************************************************************)
(* The client-side authentication context (AuthProvider) of the dashboard: *)
(* the bootstrap (initAuth), the safety timer, the auth-event listener,    *)
(* identity resolution (fetchParticipant, checkAdminUser) and the public   *)
(* operations, as a state machine.  One step of the model is one           *)
(* synchronous run of code between two awaits; React batches the state     *)
(* updates of such a run and re-renders once at its end, which is where    *)
(* isAdmin is recomputed.                                                  *)
(***************************************************************************)
EXTENDS Naturals, FiniteSets, Sequences, TLC

\* ------------------------------------------------------------------ bounds
\* How many SIGNED_IN callbacks may be in flight at the same time.
MaxHandlers == 1
\* How many auth events and calls of public operations a behaviour holds.
MaxOps == 1

\* ------------------------------------------------------------- the values
\* User | null : the external identity (id, optional email, optional handle).
NullUser == [id |-> "null", email |-> "null", user_name |-> "null"]
U1 == [id |-> "u1", email |-> "e1", user_name |-> "h1"]
U2 == [id |-> "u2", email |-> "null", user_name |-> "null"]
Identities == {U1, U2}

\* Session | null : the part of a session the code reads is its user.
NullSession == [user |-> NullUser]
Sessions == {[user |-> u] : u \in Identities}

\* Participant | null : a row of the participants table.
NullRow == [id |-> "null", email |-> "null", github_username |-> "null",
            auth_user_id |-> "null", is_admin |-> FALSE]
P1 == [id |-> "p1", email |-> "e1", github_username |-> "null",
       auth_user_id |-> "null", is_admin |-> TRUE]
P2 == [id |-> "p2", email |-> "null", github_username |-> "h1",
       auth_user_id |-> "u1", is_admin |-> FALSE]
P3 == [id |-> "p3", email |-> "null", github_username |-> "null",
       auth_user_id |-> "u2", is_admin |-> FALSE]
\* A second row with P1's email: .single() then finds two rows for that email.
P4 == [id |-> "p4", email |-> "e1", github_username |-> "null",
       auth_user_id |-> "null", is_admin |-> FALSE]
\* The tables and grant sets a behaviour may start from: U1 matched by email
\* (an admin row without link), by handle (a linked row, no admin), by both, or
\* not at all, or by handle with its email held by two rows; U2 matched by linked
\* id or not at all; at most one grant holder.
Tables == {{}, {P1}, {P2, P3}, {P1, P2}, {P1, P2, P4}}
Grants == {{}, {"u1"}, {"u2"}}
\* The remote data a behaviour starts from, a table with a grant set: nothing
\* at all; U1's admin row by email, nobody or U2 holding a grant; U1 by handle
\* and U2 by linked id with U2 holding a grant; U1 by email and by handle with
\* U1 holding a grant; U1 by handle with its email held by two rows.
Worlds == {<<{}, {}>>, <<{P1}, {}>>, <<{P1}, {"u2"}>>, <<{P2, P3}, {"u2"}>>,
           <<{P1, P2}, {"u1"}>>, <<{P1, P2, P4}, {}>>}

\* What a remote call can do: answer, answer with {data: null, error},
\* or reject (a thrown exception).  Never answering is InitHang below.
Outcomes == {"ok", "error", "throw"}

\* A call of signInWithEmail or signInWithMagicLink: which one is awaiting the
\* remote call, or how the last one ended (returned, or rejected) and the error
\* field of the value it returned.
NoSignIn == [op |-> "none", at |-> "idle", error |-> "none"]

HandlerNames == <<"h1", "h2", "h3">>
HandlerIndex == 1..MaxHandlers
Handlers == {HandlerNames[i] : i \in HandlerIndex}
Procs == {"init", "refresh"} \cup Handlers
FetchStages == {"byEmail", "byHandle", "byId"}

VARIABLES
    \* useState
    user, session, participant, isLoading, isActualAdmin, viewAsUser, userStatus,
    \* the value computed at render and exposed through the context
    isAdmin,
    \* useRef latch, the effect instance, its timer and its subscription
    authInitialized, effectMounted, hasCleanup, timer, subscription,
    \* how often the effect body started initAuth, a timer and a subscription
    started,
    \* the remote service: participants table, active admin grants, updates in flight
    participants, admin_users, pendingUpdates,
    \* the asynchronous runs: position (the remote call a run awaits), and
    \* their local variables
    pc, authUser, participantData, isAdminUser, initialSession,
    \* what the user validation of the bootstrap answered
    validation,
    \* how many link-backfill updates have been issued
    backfills,
    \* signOut
    signOutPc,
    \* signInWithEmail / signInWithMagicLink: the call in progress or its result
    signIn,
    \* the auth events delivered and public operations called so far
    ops,
    \* the resolutions ("init", "callback") of which a lookup or grant query has
    \* failed (error object or rejection)
    queryFailed

published == <<user, session, participant, isLoading, isActualAdmin, viewAsUser,
               userStatus, isAdmin>>
effectVars == <<authInitialized, effectMounted, hasCleanup, timer, subscription,
                started>>
remoteVars == <<participants, admin_users, pendingUpdates>>
runVars == <<pc, authUser, participantData, isAdminUser, initialSession, validation,
            backfills>>
vars == <<published, effectVars, remoteVars, runVars, signOutPc, signIn, ops, queryFailed>>

\* ------------------------------------------------------------ pure helpers
\* const isAdmin = isActualAdmin && !viewAsUser
IsAdminOf_ActualOnly(actual, view) == actual
IsAdminOf(actual, view) == actual /\ ~view

\* One render after a batch of state updates: every useState value and isAdmin.
Publish(u, s, p, l, a, v, st) ==
    /\ user' = u
    /\ session' = s
    /\ participant' = p
    /\ isLoading' = l
    /\ isActualAdmin' = a
    /\ viewAsUser' = v
    /\ userStatus' = st
    /\ isAdmin' = IsAdminOf(a, v)

\* The three lookup strategies of fetchParticipant, in order.
FirstStage_HandleFirst(u) ==
    IF u.user_name # "null" THEN "byHandle"
    ELSE IF u.email # "null" THEN "byEmail"
    ELSE "byId"
FirstStage(u) ==
    IF u.email # "null" THEN "byEmail"
    ELSE IF u.user_name # "null" THEN "byHandle"
    ELSE "byId"

NextStage(stage, u) ==
    IF stage = "byEmail"
    THEN (IF u.user_name # "null" THEN "byHandle" ELSE "byId")
    ELSE IF stage = "byHandle" THEN "byId"
    ELSE "return"

\* .eq(column, value) on the participants table.
Matches(stage, u, table) ==
    {r \in table :
        \/ stage = "byEmail" /\ r.email = u.email
        \/ stage = "byHandle" /\ r.github_username = u.user_name
        \/ stage = "byId" /\ r.auth_user_id = u.id}

\* .single(): the row when exactly one matches, else data = null.
Single(rows) == IF Cardinality(rows) = 1 THEN CHOOSE r \in rows : TRUE ELSE NullRow

\* What fetchParticipant returns when every query answers.
RECURSIVE FetchFrom(_, _, _)
FetchFrom(stage, u, table) ==
    IF stage = "return" THEN NullRow
    ELSE LET d == Single(Matches(stage, u, table))
         IN IF d # NullRow THEN d ELSE FetchFrom(NextStage(stage, u), u, table)

fetchParticipant(u, table) == FetchFrom(FirstStage(u), u, table)

\* What checkAdminUser returns for an outcome of its query.
checkAdminUser(uid, o) == o = "ok" /\ uid \in admin_users

Idle(p) == pc[p] \in {"idle", "done"}

\* ------------------------------------------------------------------- Init
Init ==
    /\ user = NullUser
    /\ session = NullSession
    /\ participant = NullRow
    /\ isLoading = TRUE
    /\ isActualAdmin = FALSE
    /\ viewAsUser = FALSE
    /\ userStatus = "null"
    /\ isAdmin = FALSE
    /\ authInitialized = FALSE
    /\ effectMounted = FALSE
    /\ hasCleanup = FALSE
    /\ timer = "unset"
    /\ subscription = "none"
    /\ started = [init |-> 0, timer |-> 0, subscription |-> 0]
    /\ \E w \in Worlds : participants = w[1] /\ admin_users = w[2]
    /\ pendingUpdates = {}
    /\ pc = [p \in Procs |-> "idle"]
    /\ authUser = [p \in Procs |-> NullUser]
    /\ participantData = [p \in Procs |-> NullRow]
    /\ isAdminUser = [p \in Procs |-> FALSE]
    /\ initialSession = NullSession
    /\ validation = "none"
    /\ backfills = 0
    /\ signOutPc = "idle"
    /\ signIn = NoSignIn
    /\ ops = 0
    /\ queryFailed = {}

\* ------------------------------------------------------- shared step parts
\* An auth event arrives or a consumer calls a public operation.
Stimulus == ops < MaxOps /\ ops' = ops + 1 /\ UNCHANGED queryFailed
\* A step of code already running.
Internal == UNCHANGED <<ops, queryFailed>>
\* A step in which a lookup or grant query answers run p with outcome o.
Answered(p, o) ==
    /\ UNCHANGED ops
    /\ queryFailed' = IF o = "ok" \/ p = "refresh" THEN queryFailed
                      ELSE queryFailed \cup {IF p = "init" THEN "init" ELSE "callback"}

\* clearTimeout(safetyTimeout): cancels a timer that has not fired yet.
ClearTimeout_Noop(t) == t
ClearTimeout(t) == IF t = "pending" THEN "cleared" ELSE t

\* The position and the local variables of run p after a step.
SetRun(p, newPc, au, pd, ia) ==
    /\ pc' = [pc EXCEPT ![p] = newPc]
    /\ authUser' = [authUser EXCEPT ![p] = au]
    /\ participantData' = [participantData EXCEPT ![p] = pd]
    /\ isAdminUser' = [isAdminUser EXCEPT ![p] = ia]

\* Run p moves on to await the next call, its locals as they are.
Moved(p, newPc) == SetRun(p, newPc, authUser[p], participantData[p], isAdminUser[p])

\* Run p returns: its frame is gone; ia is what its checkAdminUser returned.
Returned(p, ia) == SetRun(p, "done", NullUser, NullRow, ia)

\* setIsLoading(false) alone.
PublishLoaded ==
    Publish(user, session, participant, FALSE, isActualAdmin, viewAsUser, userStatus)

\* if (participantData) { setParticipant; setUserStatus('approved'); setIsActualAdmin }
\* else { setUserStatus('no_profile') }, with the loading flag l.
PublishResolved(d, l) ==
    IF d # NullRow
    THEN Publish(user, session, d, l, d.is_admin, viewAsUser, "approved")
    ELSE Publish(user, session, participant, l, isActualAdmin, viewAsUser, "no_profile")

\* setIsActualAdmin(isAdminUser) in place of the guarded setIsActualAdmin(true).
PublishGrant_Overwrites(r, l) ==
    Publish(user, session, participant, l, r, viewAsUser,
            IF r THEN "approved" ELSE userStatus)

\* if (isAdminUser) { setIsActualAdmin(true); setUserStatus('approved') }, with flag l.
PublishGrant(r, l) ==
    IF r
    THEN Publish(user, session, participant, l, TRUE, viewAsUser, "approved")
    ELSE Publish(user, session, participant, l, isActualAdmin, viewAsUser, userStatus)

\* setSession(null); setUser(null); setParticipant(null); setIsActualAdmin(false);
\* setUserStatus(null)
PublishCleared ==
    Publish(NullUser, NullSession, NullRow, isLoading, FALSE, viewAsUser, "null")

\* ------------------------------------------------------------- the effect
\* if (authInitialized.current) return;
LatchBlocks_Never == FALSE
LatchBlocks == authInitialized

\* The effect body: the latch, the safety timer, initAuth() up to its first
\* await, and the subscription.
EffectRun ==
    /\ Internal
    /\ ~effectMounted
    /\ effectMounted' = TRUE
    /\ IF LatchBlocks
       THEN /\ hasCleanup' = FALSE
            /\ UNCHANGED <<authInitialized, timer, subscription, started>>
            /\ UNCHANGED <<published, remoteVars, runVars, signOutPc, signIn>>
       ELSE /\ authInitialized' = TRUE
            /\ timer' = "pending"
            /\ subscription' = "active"
            /\ hasCleanup' = TRUE
            /\ started' = [init |-> started.init + 1, timer |-> started.timer + 1,
                           subscription |-> started.subscription + 1]
            /\ SetRun("init", "getSession", NullUser, NullRow, FALSE)
            /\ initialSession' = NullSession
            /\ validation' = "none"
            /\ UNCHANGED backfills
            /\ UNCHANGED <<published, remoteVars, signOutPc, signIn>>

\* A cleanup that cancels the timer and forgets subscription.unsubscribe().
Cleanup_KeepsSubscription ==
    /\ Internal
    /\ effectMounted
    /\ effectMounted' = FALSE
    /\ hasCleanup' = FALSE
    /\ timer' = IF hasCleanup THEN ClearTimeout(timer) ELSE timer
    /\ UNCHANGED <<authInitialized, started, subscription>>
    /\ UNCHANGED <<published, remoteVars, runVars, signOutPc, signIn>>

\* return () => { clearTimeout(safetyTimeout); subscription.unsubscribe(); }
Cleanup ==
    /\ Internal
    /\ effectMounted
    /\ effectMounted' = FALSE
    /\ hasCleanup' = FALSE
    /\ IF hasCleanup
       THEN /\ timer' = ClearTimeout(timer)
            /\ subscription' = "unsubscribed"
       ELSE UNCHANGED <<timer, subscription>>
    /\ UNCHANGED <<authInitialized, started>>
    /\ UNCHANGED <<published, remoteVars, runVars, signOutPc, signIn>>

\* The callback of a timer armed without its setIsLoading(false).
TimerFire_Silent ==
    /\ Internal
    /\ timer = "pending"
    /\ timer' = "fired"
    /\ UNCHANGED <<authInitialized, effectMounted, hasCleanup, subscription, started>>
    /\ UNCHANGED <<published, remoteVars, runVars, signOutPc, signIn>>

\* setTimeout(() => { setIsLoading(false) }, 10000)
TimerFire ==
    /\ Internal
    /\ timer = "pending"
    /\ timer' = "fired"
    /\ PublishLoaded
    /\ UNCHANGED <<authInitialized, effectMounted, hasCleanup, subscription, started>>
    /\ UNCHANGED <<remoteVars, runVars, signOutPc, signIn>>

\* --------------------------------------------------------------- initAuth
\* Every exit of initAuth: setIsLoading(false); clearTimeout(safetyTimeout).
InitExit ==
    /\ PublishLoaded
    /\ timer' = ClearTimeout(timer)
    /\ Returned("init", FALSE)

\* if (!initialSession) { setIsLoading(false); clearTimeout(safetyTimeout); return; }
InitNoSession_FallsThrough ==
    /\ UNCHANGED <<published, timer>>
    /\ Moved("init", "getUser")
InitNoSession == InitExit

\* await supabase.auth.getSession() answers with outcome o and session s; a
\* rejection goes to catch and finally.
GetSessionAnswer(o, s) ==
    /\ Internal
    /\ pc["init"] = "getSession"
    /\ LET got == IF o = "ok" THEN s ELSE NullSession
       IN IF o = "throw"
          THEN InitExit /\ UNCHANGED initialSession
          ELSE /\ initialSession' = got
               /\ IF got = NullSession
                  THEN InitNoSession
                  ELSE /\ UNCHANGED <<published, timer>>
                       /\ Moved("init", "getUser")
    /\ UNCHANGED <<authInitialized, effectMounted, hasCleanup, subscription, started>>
    /\ UNCHANGED <<remoteVars, validation, backfills, signOutPc, signIn>>

GetSessionReturn == \E o \in Outcomes, s \in Sessions \cup {NullSession} : GetSessionAnswer(o, s)

\* What getUser answered, as the code reads it: a user without error, no user
\* without error, an error object, or a rejection.
Answer(o, u) == IF o # "ok" THEN o ELSE IF u = NullUser THEN "nouser" ELSE "user"

\* if (error || !validatedUser)
ValidationFails_ErrorOnly(o, u) == o = "error"
ValidationFails(o, u) == o = "error" \/ u = NullUser

\* await supabase.auth.getUser() answers with outcome o and user u: validation,
\* then setSession, setUser and the first query of fetchParticipant.  A
\* rejection goes to catch and finally.
GetUserAnswer(o, u) ==
    /\ Internal
    /\ pc["init"] = "getUser"
    /\ validation' = Answer(o, u)
    /\ IF o = "throw" \/ ValidationFails(o, u)
       THEN InitExit
       ELSE /\ Publish(u, initialSession, participant, isLoading, isActualAdmin,
                       viewAsUser, userStatus)
            /\ UNCHANGED timer
            /\ SetRun("init", FirstStage(u), u, NullRow, FALSE)
    /\ UNCHANGED <<authInitialized, effectMounted, hasCleanup, subscription, started>>
    /\ UNCHANGED <<remoteVars, initialSession, backfills, signOutPc, signIn>>

GetUserReturn == \E o \in Outcomes, u \in {initialSession.user, NullUser} : GetUserAnswer(o, u)

\* Lines 154-172, once fetchParticipant has returned d: publish the result,
\* issue the link backfill when the row has no link, then issue checkAdminUser.
InitAfterFetch(d) ==
    LET link == d # NullRow /\ d.auth_user_id = "null"
    IN /\ PublishResolved(d, isLoading)
       /\ pendingUpdates' = IF link
                            THEN pendingUpdates \cup {[id |-> d.id, uid |-> authUser["init"].id]}
                            ELSE pendingUpdates
       /\ backfills' = IF link THEN backfills + 1 ELSE backfills
       /\ SetRun("init", "admin", authUser["init"], d, FALSE)
       /\ UNCHANGED <<participants, admin_users>>

\* Lines 205-214 of the SIGNED_IN callback, once fetchParticipant has returned d.
HandlerAfterFetch(h, d) ==
    /\ PublishResolved(d, isLoading)
    /\ SetRun(h, "admin", authUser[h], d, FALSE)
    /\ UNCHANGED <<remoteVars, backfills>>

\* Lines 109-113 of refreshParticipant, once fetchParticipant has returned d.
RefreshAfterFetch(d) ==
    /\ IF d # NullRow
       THEN Publish(user, session, d, isLoading, d.is_admin, viewAsUser, "approved")
       ELSE UNCHANGED published
    /\ Returned("refresh", FALSE)
    /\ UNCHANGED <<remoteVars, backfills>>

\* What a query of fetchParticipant yields for outcome o: { data } of .single().
QueryData(stage, u, table, o) == IF o = "ok" THEN Single(Matches(stage, u, table)) ELSE NullRow

\* One query of fetchParticipant answers run p with outcome o: a row returns it,
\* no row moves on to the next strategy, the last strategy or an exception
\* (caught at line 85) returns null.
FetchResume(p, o) ==
    /\ Answered(p, o)
    /\ pc[p] \in FetchStages
    /\ LET u == authUser[p]
           d == QueryData(pc[p], u, participants, o)
           nxt == NextStage(pc[p], u)
       IN IF o # "throw" /\ d = NullRow /\ nxt # "return"
          THEN /\ Moved(p, nxt)
               /\ UNCHANGED <<published, remoteVars, backfills>>
          ELSE IF p = "init" THEN InitAfterFetch(d)
          ELSE IF p = "refresh" THEN RefreshAfterFetch(d)
          ELSE HandlerAfterFetch(p, d)
    /\ UNCHANGED <<effectVars, initialSession, validation, signOutPc, signIn>>

\* fetchParticipant without its try/catch: the rejection reaches the caller,
\* which is the catch and finally of initAuth, the catch of the SIGNED_IN
\* callback, or the promise of refreshParticipant.
FetchAnswer_Uncaught(p, o) ==
    IF o # "throw" THEN FetchResume(p, o)
    ELSE /\ Answered(p, o)
         /\ pc[p] \in FetchStages
         /\ IF p = "init"
            THEN InitExit /\ UNCHANGED subscription
            ELSE Returned(p, FALSE) /\ UNCHANGED <<published, timer, subscription>>
         /\ UNCHANGED <<authInitialized, effectMounted, hasCleanup, started>>
         /\ UNCHANGED <<remoteVars, initialSession, validation, backfills, signOutPc, signIn>>

\* try { ... } catch (error) { console.error(...); return null; }
FetchAnswer(p, o) == FetchResume(p, o)

FetchReturn(p) == \E o \in Outcomes : FetchAnswer(p, o)

InitFetchReturn == FetchReturn("init")

\* await checkAdminUser(validatedUser.id) answers with outcome o, then the
\* finally block.
InitAdminAnswer(o) ==
    /\ Answered("init", o)
    /\ pc["init"] = "admin"
    /\ LET r == checkAdminUser(authUser["init"].id, o)
       IN /\ PublishGrant(r, FALSE)
          /\ Returned("init", r)
    /\ timer' = ClearTimeout(timer)
    /\ UNCHANGED <<authInitialized, effectMounted, hasCleanup, subscription, started>>
    /\ UNCHANGED <<remoteVars, initialSession, validation, backfills, signOutPc, signIn>>

InitAdminReturn == \E o \in Outcomes : InitAdminAnswer(o)

\* A remote call of the bootstrap that never answers.
InitHang ==
    /\ Internal
    /\ pc["init"] \in {"getSession", "getUser", "admin"} \cup FetchStages
    /\ Moved("init", "hung")
    /\ UNCHANGED <<published, effectVars, remoteVars, initialSession, validation, backfills, signOutPc, signIn>>

\* The fire-and-forget update settles: applied or failed, its result discarded.
BackfillSettles ==
    /\ Internal
    /\ \E upd \in pendingUpdates, o \in {"ok", "error"} :
        /\ pendingUpdates' = pendingUpdates \ {upd}
        /\ participants' = IF o = "ok"
                           THEN {IF r.id = upd.id THEN [r EXCEPT !.auth_user_id = upd.uid]
                                 ELSE r : r \in participants}
                           ELSE participants
        /\ UNCHANGED <<published, effectVars, admin_users, runVars, signOutPc, signIn>>

\* ------------------------------------------------------ onAuthStateChange
\* event === 'SIGNED_OUT'
SignedOutEvent ==
    /\ Stimulus
    /\ subscription = "active"
    /\ PublishCleared
    /\ UNCHANGED <<effectVars, remoteVars, runVars, signOutPc, signIn>>

\* event === 'SIGNED_IN' && newSession?.user: setSession, setUser and the
\* first query of fetchParticipant.  The callbacks in flight are told apart by
\* a name; a new one takes the first name that is free.
SignedInEvent ==
    /\ Stimulus
    /\ subscription = "active"
    /\ \E i \in HandlerIndex, s \in Sessions :
       LET h == HandlerNames[i]
       IN /\ Idle(h)
          /\ \A j \in HandlerIndex : j < i => ~Idle(HandlerNames[j])
          /\ Publish(s.user, s, participant, isLoading, isActualAdmin, viewAsUser, userStatus)
          /\ SetRun(h, FirstStage(s.user), s.user, NullRow, FALSE)
    /\ UNCHANGED <<effectVars, remoteVars, initialSession, validation, backfills, signOutPc, signIn>>

HandlerFetchReturn == \E h \in Handlers : FetchReturn(h)

\* await checkAdminUser(newSession.user.id) answers callback h with outcome o.
HandlerAdminAnswer(h, o) ==
    /\ Answered(h, o)
    /\ pc[h] = "admin"
    /\ LET r == checkAdminUser(authUser[h].id, o)
       IN /\ PublishGrant(r, isLoading)
          /\ Returned(h, r)
    /\ UNCHANGED <<effectVars, remoteVars, initialSession, validation, backfills, signOutPc, signIn>>

HandlerAdminReturn == \E h \in Handlers, o \in Outcomes : HandlerAdminAnswer(h, o)

\* ------------------------------------------------------ public operations
\* refreshParticipant() without its if (user).
RefreshCall_NoGuard ==
    /\ Stimulus
    /\ Idle("refresh")
    /\ SetRun("refresh", FirstStage(user), user, NullRow, FALSE)
    /\ UNCHANGED <<published, effectVars, remoteVars, initialSession, validation, backfills,
                   signOutPc, signIn>>

\* refreshParticipant(): if (user) { await fetchParticipant(user) ... }
RefreshCall ==
    /\ Stimulus
    /\ Idle("refresh")
    /\ IF user # NullUser
       THEN SetRun("refresh", FirstStage(user), user, NullRow, FALSE)
       ELSE Returned("refresh", FALSE)
    /\ UNCHANGED <<published, effectVars, remoteVars, initialSession, validation, backfills, signOutPc, signIn>>

RefreshFetchReturn == FetchReturn("refresh")

\* signOut(): await supabase.auth.signOut() is issued.
SignOutCall ==
    /\ Stimulus
    /\ signOutPc = "idle"
    /\ signOutPc' = "awaiting"
    /\ UNCHANGED <<published, effectVars, remoteVars, runVars, signIn>>

\* The remote sign-out answers (with or without an error object) and the five
\* setters run, or it rejects and the promise of signOut rejects with it.
SignOutReturn ==
    /\ Internal
    /\ signOutPc = "awaiting"
    /\ \E o \in Outcomes :
          IF o = "throw"
          THEN signOutPc' = "idle" /\ UNCHANGED published
          ELSE signOutPc' = "idle" /\ PublishCleared
    /\ UNCHANGED <<effectVars, remoteVars, runVars, signIn>>

\* signInWithEmail / signInWithMagicLink: the remote call is issued.
SignInCall(op) ==
    /\ Stimulus
    /\ signIn.at # "awaiting"
    /\ signIn' = [op |-> op, at |-> "awaiting", error |-> "none"]
    /\ UNCHANGED <<published, effectVars, remoteVars, runVars, signOutPc>>

\* const { error } = await supabase.auth.signInWithPassword({ email, password })
SignInWithEmailCall == SignInCall("email")

\* const { error } = await supabase.auth.signInWithOtp({ email, options })
SignInWithMagicLinkCall == SignInCall("magicLink")

\* The remote call answers with outcome o: return { error }, or the await
\* rejects and, with no try around it, so does the promise of the operation.
SignInAnswer(o) ==
    /\ Internal
    /\ signIn.at = "awaiting"
    /\ signIn' = IF o = "throw"
                 THEN [op |-> "none", at |-> "rejected", error |-> "none"]
                 ELSE [op |-> "none", at |-> "returned",
                       error |-> IF o = "ok" THEN "null" ELSE "error"]
    /\ UNCHANGED <<published, effectVars, remoteVars, runVars, signOutPc>>

SignInReturn == \E o \in Outcomes : SignInAnswer(o)

\* setViewAsUser(value)
SetViewAsUser ==
    /\ Stimulus
    /\ \E v \in BOOLEAN :
          /\ v # viewAsUser
          /\ Publish(user, session, participant, isLoading, isActualAdmin, v, userStatus)
    /\ UNCHANGED <<effectVars, remoteVars, runVars, signOutPc, signIn>>

\* ---------------------------------------------------------- specification
\* Every step of the provider.  A remote call that never answers is here a call
\* whose answer step is not taken; the explicit step InitHang is part of the
\* specifications below, where it is told apart from an answer that is late.
Next ==
    \/ EffectRun
    \/ Cleanup
    \/ TimerFire
    \/ GetSessionReturn
    \/ GetUserReturn
    \/ InitFetchReturn
    \/ InitAdminReturn
    \/ BackfillSettles
    \/ SignedOutEvent
    \/ SignedInEvent
    \/ HandlerFetchReturn
    \/ HandlerAdminReturn
    \/ RefreshCall
    \/ RefreshFetchReturn
    \/ SignOutCall
    \/ SignOutReturn
    \/ SignInWithEmailCall
    \/ SignInWithMagicLinkCall
    \/ SignInReturn
    \/ SetViewAsUser

Spec == Init /\ [][Next]_vars

\* The behaviours that hold sign-ins only: the bootstrap and SIGNED_IN events,
\* no sign-out, no refresh.
SignInNext ==
    \/ EffectRun
    \/ Cleanup
    \/ TimerFire
    \/ GetSessionReturn
    \/ GetUserReturn
    \/ InitFetchReturn
    \/ InitAdminReturn
    \/ InitHang
    \/ BackfillSettles
    \/ SignedInEvent
    \/ HandlerFetchReturn
    \/ HandlerAdminReturn

SignInSpec == Init /\ [][SignInNext]_vars

\* The race of the bootstrap with SIGNED_IN events for the identity of the
\* bootstrap's own session: an event arrives only while the bootstrap is in
\* flight, and it carries the session that the session fetch has returned or,
\* when it arrives before that answer, will return; a later event carries the
\* session of the earlier one.
RaceSignedIn ==
    /\ SignedInEvent
    /\ pc["init"] \in {"getSession", "getUser", "admin"} \cup FetchStages
    /\ initialSession # NullSession => session' = initialSession
    /\ ops > 0 => session' = session

RaceGetSession ==
    /\ GetSessionReturn
    /\ ops > 0 => initialSession' \in {session, NullSession}

RaceNext ==
    \/ EffectRun
    \/ Cleanup
    \/ TimerFire
    \/ RaceGetSession
    \/ GetUserReturn
    \/ InitFetchReturn
    \/ InitAdminReturn
    \/ BackfillSettles
    \/ RaceSignedIn
    \/ HandlerFetchReturn
    \/ HandlerAdminReturn

RaceSpec == Init /\ [][RaceNext]_vars

\* The steps of the bootstrap that a remote answer enables.
InitStep == GetSessionReturn \/ GetUserReturn \/ InitFetchReturn \/ InitAdminReturn

\* The mount effect alone: the bootstrap, its timer, the cleanup and re-entry.
\* The steps left out (auth events, public operations) neither write isLoading,
\* timer, subscription, authInitialized or the bootstrap's position nor change
\* anything the steps kept here read besides the published values they overwrite.
BootNext ==
    \/ EffectRun
    \/ Cleanup
    \/ TimerFire
    \/ GetSessionReturn
    \/ GetUserReturn
    \/ InitFetchReturn
    \/ InitAdminReturn
    \/ InitHang
    \/ BackfillSettles

\* The event loop runs a due timer callback and resumes a run whose remote call
\* has answered; a call that never answers is the step InitHang.
LiveSpec == Init /\ [][BootNext]_vars /\ WF_vars(TimerFire) /\ WF_vars(InitStep)

\* ----------------------------------------------------------------- claims
\* The runs that perform identity resolution: the bootstrap and the SIGNED_IN
\* callbacks.
Resolvers == {"init"} \cup Handlers

\* Run p's resolution ends in this step.
ResolutionEnds(p) == pc[p] = "admin" /\ pc'[p] = "done"

\* fetchParticipant returns to run p in this step (p goes on to the grant check).
FetchEnds(p) == pc[p] \in FetchStages /\ pc'[p] = "admin"

\* C1: in every reachable state the exposed isAdmin equals isActualAdmin and
\* not viewAsUser; in particular isAdmin is never true while isActualAdmin is
\* false, whatever setViewAsUser was given.
C1_IsAdminDerived ==
    /\ isAdmin = (isActualAdmin /\ ~viewAsUser)
    /\ isAdmin => isActualAdmin

\* An actual admin previews the non-admin view: setViewAsUser(true) has acted.
C1_Witness == isActualAdmin /\ viewAsUser /\ ~isAdmin

\* C2: whenever a resolution (bootstrap or SIGNED_IN callback) completes for an
\* identity that matches no participant and holds no active grant, the published
\* state is participant = null, userStatus = 'no_profile', isActualAdmin = false
\* and isAdmin = false, whatever sign-ins came before (the identity still being
\* the published user: no sign-out has intervened).
C2_NoMatchPublishesNoProfile ==
    [][\A p \in Resolvers :
          (/\ ResolutionEnds(p)
           /\ user = authUser[p]
           /\ fetchParticipant(authUser[p], participants) = NullRow
           /\ authUser[p].id \notin admin_users)
          => (/\ participant' = NullRow
              /\ userStatus' = "no_profile"
              /\ ~isActualAdmin'
              /\ ~isAdmin')]_vars

\* C3: whenever a resolution completes for an identity that matches no
\* participant and whose active grant the grant check has found (the identity
\* still being the published user), the published state is participant = null,
\* userStatus = 'approved' and isActualAdmin = true.
C3_GrantWithoutParticipant ==
    [][\A p \in Resolvers :
          (/\ ResolutionEnds(p)
           /\ user = authUser[p]
           /\ fetchParticipant(authUser[p], participants) = NullRow
           /\ authUser[p].id \in admin_users
           /\ isAdminUser'[p])
          => (/\ participant' = NullRow
              /\ userStatus' = "approved"
              /\ isActualAdmin')]_vars

\* C4: when a call of signOut returns or fails, user, session and participant
\* are unset, isActualAdmin is false and userStatus is null, whatever the remote
\* sign-out did.
C4_SignOutAlwaysClears ==
    [][(signOutPc = "awaiting" /\ signOutPc' = "idle")
       => (/\ user' = NullUser
           /\ session' = NullSession
           /\ participant' = NullRow
           /\ ~isActualAdmin'
           /\ userStatus' = "null")]_vars

\* C5: on every resolution (bootstrap and each SIGNED_IN callback), when
\* fetchParticipant returns a participant without auth_user_id exactly one
\* backfill update for that row and identity is issued, when it returns a
\* linked participant or none no update is issued, and no other step issues
\* one (no retry when the update fails).
C5_BackfillOncePerResolution ==
    [][/\ \A p \in Resolvers :
             FetchEnds(p) =>
                LET d == participantData'[p]
                IN IF d # NullRow /\ d.auth_user_id = "null"
                   THEN /\ backfills' = backfills + 1
                        /\ [id |-> d.id, uid |-> authUser[p].id] \in pendingUpdates'
                   ELSE /\ backfills' = backfills
                        /\ pendingUpdates' = pendingUpdates
       /\ (\A p \in Resolvers : ~FetchEnds(p)) => backfills' = backfills]_vars

\* C6: a holder of an active grant stays an actual admin whatever the
\* participant's own flag: when no resolution is in flight and refreshParticipant
\* completes for the published user, who holds an active grant and is an actual
\* admin, having resolved that user's participant, isActualAdmin is still true.
C6_RefreshKeepsGrantAdmin ==
    [][(/\ pc["refresh"] \in FetchStages
        /\ pc'["refresh"] = "done"
        /\ \A p \in Resolvers : Idle(p)
        /\ user # NullUser
        /\ authUser["refresh"] = user
        /\ user.id \in admin_users
        /\ isActualAdmin
        /\ participant' = fetchParticipant(user, participants))
       => isActualAdmin']_vars

C8_TimerOnlyWhileBootstrapping ==
    /\ [](pc["init"] = "done" => (timer # "pending" /\ ~isLoading))
    /\ [][/\ (pc["init"] # "done" /\ pc'["init"] = "done")
             => (~isLoading' /\ timer' # "pending")
          /\ (timer # "fired" /\ timer' = "fired")
             => (timer = "pending" /\ pc["init"] \notin {"idle", "done"})
          /\ timer = "fired" => timer' = "fired"]_vars

\* The bootstrap completed before the timer was due and cancelled it.
C8_Witness == pc["init"] = "done" /\ timer = "cleared" /\ ~isLoading

\* C9: the bootstrap, the timer and the subscription are started at most once:
\* an entry of the effect body with the latch set changes nothing but the
\* effect's own bookkeeping.
C9_LatchOnce ==
    /\ [](started.init <= 1 /\ started.timer <= 1 /\ started.subscription <= 1)
    /\ [][(~effectMounted /\ effectMounted' /\ authInitialized)
          => UNCHANGED <<published, remoteVars, runVars, timer, subscription, started>>]_vars

\* The effect body was entered a second time and the latch turned it away.
C9_Witness == authInitialized /\ effectMounted /\ ~hasCleanup /\ started.init = 1

\* C10: when the session fetch of the bootstrap yields no session, the same
\* step publishes isLoading = false and ends the bootstrap: no further remote
\* call is awaited or issued, and user, session, participant, isActualAdmin and
\* userStatus are not written; a finished bootstrap never resumes.
C10_NoSessionTerminates ==
    [][/\ (/\ pc["init"] = "getSession"
           /\ pc'["init"] \notin {"getSession", "hung"}
           /\ initialSession' = NullSession)
          => (/\ pc'["init"] = "done"
              /\ ~isLoading'
              /\ UNCHANGED <<user, session, participant, isActualAdmin, userStatus>>
              /\ UNCHANGED <<pendingUpdates, backfills>>)
       /\ pc["init"] = "done" => pc'["init"] = "done"]_vars

\* The bootstrap found no session and ended with nothing published but the flag.
C10_Witness ==
    /\ pc["init"] = "done"
    /\ initialSession = NullSession
    /\ ~isLoading
    /\ user = NullUser
    /\ session = NullSession
    /\ userStatus = "null"
    /\ timer = "cleared"

\* C11: when a session exists but the user validation answers with an error,
\* with no user, or rejects, the same step publishes isLoading = false and ends
\* the bootstrap: session, user, participant, isActualAdmin and userStatus are
\* not written, no lookup, grant check or backfill is issued, and the finished
\* bootstrap never resumes.  The bootstrap publishes a session only in the step
\* in which the validation answered with a user, and it is the validated one:
\* before any auth event, no session is published without it.
C11_ValidationGatesPublish ==
    /\ []((validation # "user" /\ ops = 0) => (session = NullSession /\ user = NullUser))
    /\ [][/\ (pc["init"] = "getUser" /\ validation' \in {"nouser", "error", "throw"})
             => (/\ pc'["init"] = "done"
                 /\ ~isLoading'
                 /\ UNCHANGED <<user, session, participant, isActualAdmin, userStatus>>
                 /\ UNCHANGED <<pendingUpdates, backfills>>)
          /\ (pc["init"] = "done" /\ validation # "user") => pc'["init"] = "done"
          /\ (pc'["init"] # pc["init"] /\ session' # session)
             => (/\ pc["init"] = "getUser"
                 /\ validation' = "user"
                 /\ session' = initialSession
                 /\ user' = initialSession.user)]_vars

\* A cached session was found, its validation answered with an error, and the
\* bootstrap ended with loading off and nothing else published.
C11_Witness ==
    /\ pc["init"] = "done"
    /\ initialSession # NullSession
    /\ validation = "error"
    /\ ~isLoading
    /\ session = NullSession
    /\ user = NullUser
    /\ userStatus = "null"

\* The strategies that apply to identity u, in the claimed order.
C12_Order(u) ==
    SelectSeq(<<"byEmail", "byHandle", "byId">>,
              LAMBDA s : /\ (s = "byEmail" => u.email # "null")
                         /\ (s = "byHandle" => u.user_name # "null"))

\* The row of the first strategy in that order whose query returns one, else null.
C12_Expected(u, table) ==
    LET hits == SelectSeq(C12_Order(u), LAMBDA s : Single(Matches(s, u, table)) # NullRow)
    IN IF hits = <<>> THEN NullRow ELSE Single(Matches(Head(hits), u, table))

\* fetchParticipant returns row d to run p in this step.
C12_Returns(p, d) ==
    IF p = "refresh"
    THEN /\ pc'[p] = "done"
         /\ IF d # NullRow THEN participant' = d ELSE UNCHANGED published
    ELSE /\ pc'[p] = "admin"
         /\ participantData'[p] = d
         /\ d # NullRow => participant' = d

\* C12: fetchParticipant queries by email (only when the identity has one), then
\* by handle (only when it has a user_name), then by linked id: a run starts at
\* the first applicable strategy and only ever awaits an applicable one; when a
\* query returns a row the run returns that row, when it returns none the run
\* moves to the next applicable strategy, and after the last one it returns
\* null.  So the result is the row of the first strategy that returns one, and
\* null exactly when no applicable strategy returns a row.
C12_FixedOrderFirstRow ==
    /\ [](\A p \in Procs : pc[p] \in FetchStages =>
             \E i \in 1..Len(C12_Order(authUser[p])) : C12_Order(authUser[p])[i] = pc[p])
    /\ [](\A u \in Identities :
             /\ fetchParticipant(u, participants) = C12_Expected(u, participants)
             /\ (fetchParticipant(u, participants) = NullRow) =
                   (\A i \in 1..Len(C12_Order(u)) :
                       Single(Matches(C12_Order(u)[i], u, participants)) = NullRow))
    /\ [][\A p \in Procs :
             /\ (pc[p] \notin FetchStages /\ pc'[p] \in FetchStages)
                => pc'[p] = Head(C12_Order(authUser'[p]))
             /\ \A o \in {"ok", "error"} :
                   FetchAnswer(p, o) =>
                     LET u == authUser[p]
                         order == C12_Order(u)
                         i == CHOOSE k \in 1..Len(order) : order[k] = pc[p]
                         row == IF o = "ok" THEN Single(Matches(pc[p], u, participants))
                                ELSE NullRow
                     IN IF row # NullRow THEN C12_Returns(p, row)
                        ELSE IF i < Len(order)
                        THEN pc'[p] = order[i + 1] /\ UNCHANGED published
                        ELSE C12_Returns(p, NullRow)]_vars

\* The email of U1 is held by two rows, so the email query returned no row, and
\* the bootstrap went on and resolved U1 by handle.
C12_Witness ==
    /\ pc["init"] = "admin"
    /\ authUser["init"] = U1
    /\ Cardinality(Matches("byEmail", U1, participants)) = 2
    /\ participantData["init"] = P2
    /\ participant = P2

\* What a step leaves of the published state when it writes none of it but,
\* on the bootstrap's exit, the loading flag.
C13_OnlyLoadingOff ==
    /\ ~isLoading'
    /\ UNCHANGED <<user, session, participant, isActualAdmin, viewAsUser, userStatus>>

\* C13: no rejection of a remote call on the resolution path ends a run in an
\* error.  A lookup query that rejects makes fetchParticipant return null: the
\* bootstrap and the SIGNED_IN callback publish 'no_profile' and go on to the
\* grant check, refreshParticipant ends with nothing written.  A grant query
\* that rejects makes checkAdminUser return false and the run ends normally.  A
\* session fetch or a validation that rejects ends the bootstrap.  Every end of
\* the bootstrap publishes isLoading = false, and a callback ending after the
\* bootstrap leaves it false.
C13_NoFailureEscapes ==
    /\ [](pc["init"] = "done" => ~isLoading)
    /\ [][/\ \A p \in Procs :
                FetchAnswer(p, "throw") =>
                   IF p = "refresh"
                   THEN pc'[p] = "done" /\ UNCHANGED published
                   ELSE /\ pc'[p] = "admin"
                        /\ participantData'[p] = NullRow
                        /\ userStatus' = "no_profile"
                        /\ UNCHANGED <<user, session, participant, isActualAdmin, isLoading>>
          /\ InitAdminAnswer("throw") =>
                (~isAdminUser'["init"] /\ pc'["init"] = "done" /\ C13_OnlyLoadingOff)
          /\ \A h \in Handlers :
                HandlerAdminAnswer(h, "throw") =>
                   (/\ ~isAdminUser'[h]
                    /\ pc'[h] = "done"
                    /\ UNCHANGED published
                    /\ pc["init"] = "done" => ~isLoading')
          /\ \A s \in Sessions \cup {NullSession} :
                GetSessionAnswer("throw", s) => (pc'["init"] = "done" /\ C13_OnlyLoadingOff)
          /\ \A u \in Identities \cup {NullUser} :
                GetUserAnswer("throw", u) => (pc'["init"] = "done" /\ C13_OnlyLoadingOff)]_vars

\* The validation of a cached session rejected, and the bootstrap ended through
\* its finally block with loading off.
C13_Witness ==
    /\ pc["init"] = "done"
    /\ validation = "throw"
    /\ timer = "cleared"
    /\ ~isLoading

\* Both resolutions of the race have completed: the bootstrap validated its
\* session and went through the resolution, every SIGNED_IN callback has
\* returned, and the participants table is as it was at the start.
C14_RaceOver ==
    /\ pc["init"] = "done"
    /\ validation = "user"
    /\ ops >= 1
    /\ \A h \in Handlers : Idle(h)
    /\ participants \in Tables

\* What the bootstrap alone publishes for identity u from the remote data.
C14_Alone(u) ==
    LET d == fetchParticipant(u, participants)
        g == u.id \in admin_users
    IN /\ participant = d
       /\ isActualAdmin = ((d # NullRow /\ d.is_admin) \/ g)
       /\ userStatus = IF d # NullRow \/ g THEN "approved" ELSE "no_profile"

C15_StatusTracksParticipant ==
    /\ []((participant # NullRow /\ queryFailed = {}) => userStatus = "approved")
    /\ [][\A p \in Resolvers :
             (/\ ResolutionEnds(p)
              /\ queryFailed' = {}
              /\ user = authUser[p]
              /\ fetchParticipant(authUser[p], participants) = NullRow
              /\ authUser[p].id \notin admin_users)
             => (userStatus' = "no_profile" /\ participant' = NullRow)]_vars

\* C16: refreshParticipant called while no user is set issues no query and
\* writes nothing: it returns at once with the published state and the remote
\* service as they were.  Called while a user is set it starts the lookup for
\* that user at the first applicable strategy; its later steps stay on the
\* lookup for the same user until it returns, it never awaits the grant check,
\* and no step of it issues a backfill or writes user, session, isLoading or
\* viewAsUser.
C16_RefreshFrame ==
    /\ [](pc["refresh"] \in {"idle", "done"} \cup FetchStages)
    /\ [][/\ RefreshCall =>
                IF user = NullUser
                THEN /\ pc'["refresh"] = "done"
                     /\ UNCHANGED <<published, remoteVars, backfills>>
                ELSE /\ pc'["refresh"] = Head(C12_Order(user))
                     /\ authUser'["refresh"] = user
                     /\ UNCHANGED <<published, remoteVars, backfills>>
          /\ (pc["refresh"] \in FetchStages /\ pc'["refresh"] # pc["refresh"]) =>
                /\ pc'["refresh"] \in FetchStages \cup {"done"}
                /\ pc'["refresh"] \in FetchStages => authUser'["refresh"] = authUser["refresh"]
                /\ UNCHANGED <<remoteVars, backfills>>
                /\ UNCHANGED <<user, session, isLoading, viewAsUser>>
                /\ participant' # participant => participant' \in participants]_vars

\* refreshParticipant was called while no user was set and has returned with
\* nothing published.
C16_Witness ==
    /\ pc["refresh"] = "done"
    /\ ops = 1
    /\ user = NullUser
    /\ participant = NullRow
    /\ userStatus = "null"
    /\ pendingUpdates = {}

\* C17: signInWithEmail and signInWithMagicLink never throw: whatever the
\* remote call does (success, error object, rejection on a network failure),
\* the operation returns a value whose error field is null on success and the
\* error otherwise, and the step writes none of the published state.
C17_SignInNeverThrows ==
    /\ [](signIn.at # "rejected")
    /\ [][\A o \in Outcomes :
             SignInAnswer(o) =>
                /\ signIn'.at = "returned"
                /\ signIn'.error = IF o = "ok" THEN "null" ELSE "error"
                /\ UNCHANGED published]_vars

\* C18: the subscription is established once, by the first entry of the effect,
\* and released by that entry's cleanup together with a pending timer: once the
\* cleanup has run the subscription stays released and no timer is pending,
\* whatever mounts follow; an auth event is handled only while the subscription
\* is active, so that no callback starts and no event clears state afterwards;
\* and no second subscription is ever created.
C18_SubscriptionLifecycle ==
    /\ [](started.subscription <= 1)
    /\ []((subscription = "active") = (authInitialized /\ effectMounted /\ hasCleanup))
    /\ [](subscription = "unsubscribed" => timer # "pending")
    /\ [][/\ (effectMounted /\ ~effectMounted' /\ subscription = "active")
                => (subscription' = "unsubscribed" /\ timer' # "pending")
          /\ subscription = "unsubscribed" => subscription' = "unsubscribed"
          /\ (SignedInEvent \/ SignedOutEvent) => subscription = "active"
          /\ subscription # "active" =>
                \A h \in Handlers : Idle(h) => pc'[h] \in {"idle", "done"}]_vars

\* The cleanup ran while the bootstrap was in flight and cancelled the pending
\* timer; the effect was entered again and created no new subscription.
C18_Witness ==
    /\ subscription = "unsubscribed"
    /\ timer = "cleared"
    /\ pc["init"] = "getSession"
    /\ effectMounted
    /\ started.subscription = 1

\* C19: the signed-out state stays cleared: in every reachable state, when no
\* user is published, no participant is published, isActualAdmin is false and
\* userStatus is null, also when a resolution or a refreshParticipant that
\* started before the sign-out completes after it.
C19_SignedOutStaysCleared ==
    user = NullUser => (participant = NullRow /\ ~isActualAdmin /\ userStatus = "null")

\* No resolution is in flight: the bootstrap and every SIGNED_IN callback are
\* idle or have returned, and the participants table is as it was at the start.
C20_Quiescent ==
    /\ \A p \in Resolvers : Idle(p)
    /\ participants \in Tables

\* C20: the published participant and admin flag belong to the published user:
\* in every quiescent state with a user published, participant is null or the
\* record that fetchParticipant returns for that user, and isActualAdmin is the
\* admin flag of that user's record or that user's grant, for every
\* interleaving of the bootstrap with SIGNED_IN events of other identities.
\* Stated for the runs in which every query answered without a failure and
\* the published user has a record, so that every resolution that wrote
\* the participant found one.
C20_PublishedBelongsToUser ==
    LET d == fetchParticipant(user, participants)
    IN (C20_Quiescent /\ user # NullUser /\ queryFailed = {} /\ d # NullRow) =>
          /\ participant \in {NullRow, d}
          /\ isActualAdmin = (d.is_admin \/ user.id \in admin_users)

====
